---- MODULE Spec2Model ----
(***************************************************************************)
(* Model of the forcerelay header relayer                                  *)
(*   crates/relayer/src/supervisor/forcerelay.rs  (handle_event_batch)     *)
(* and of the client type codec                                            *)
(*   crates/relayer-types/src/core/ics02_client/client_type.rs             *)
(*                                                                         *)
(* handle_event_batch is one sequential procedure; pc is its position and  *)
(* every action is the code between two calls on a chain handle.  The      *)
(* chain handles are external: what they return is chosen with \E.         *)
(***************************************************************************)
EXTENDS Integers, Sequences, FiniteSets, TLC

VARIABLES
    src_cfg,            \* what src_chain.config() returns
    dst_cfg,            \* what dst_chain.config() returns
    event_batch,        \* the EventBatch argument: [events, height]
    pc,                 \* position in handle_event_batch
    outcome,            \* how the invocation ended ("none" while running)
    idx,                \* next event of the filter_map iteration
    start_slot,
    any_client_states,  \* heights whose client state was built, in order
    start_height,
    target_height,
    retry_number,
    limit,              \* limit of the page in flight
    clients_len,        \* client_states.len() of the page in flight
    end_height,
    direct_result,      \* result of the Phase 1 submission (NoResult before)
    chase_result,       \* result of the latest chase submission
    n_build,            \* calls of build_client_state
    n_direct,           \* Phase 1 calls of send_messages_and_wait_commit
    n_query,            \* calls of query_clients (saturates at CountCap)
    n_chase,            \* calls of send_messages (saturates at CountCap)
    call,               \* the call the latest step made on a chain handle
    slept,              \* the latest step ended in thread::sleep
    page_pending,       \* a page was fetched and not yet submitted
    all_ok,             \* every chase submission so far succeeded
    all_gap,            \* every chase submission so far failed, gap shape
    all_full,           \* every query so far returned exactly limit records
    fail_run,           \* chase submissions failed since the last success
    failed_page,        \* request of the page whose submission just failed
    build_log,          \* results of build_client_state, in call order
    direct_msgs,        \* msgs of the Phase 1 TrackedMsgs
    ct_op,              \* codec: operation applied ("none" before)
    ct_variant,         \* codec: variant argument
    ct_num,             \* codec: numeric argument
    ct_str,             \* codec: string argument, a sequence of characters
    ct_result           \* codec: result of the operation

relay_vars == << src_cfg, dst_cfg, event_batch, pc, outcome, idx, start_slot,
                 any_client_states, start_height, target_height, retry_number,
                 limit, clients_len, end_height, direct_result, chase_result,
                 n_build, n_direct, n_query, n_chase, call, slept,
                 page_pending, all_ok, all_gap, all_full, fail_run,
                 failed_page, build_log, direct_msgs >>

codec_vars == << ct_op, ct_variant, ct_num, ct_str, ct_result >>

vars == << relay_vars, codec_vars >>

----------------------------------------------------------------------------
(* Bounds of the model *)

\* batch heights 1..MaxHeight and reported tips 0..MaxHeight+1 are explored
\* exhaustively; on the pages they give every number of records is returned
MaxHeight == 3

\* the call counters stop counting here
CountCap == 6

\* numeric inputs 0..MaxNum of the codec
MaxNum == 100

\* string inputs of the codec: a prefix of a tag followed by at most
\* MaxSuffixLen more characters
MaxSuffixLen == 2

----------------------------------------------------------------------------
(* Program constants *)

MAX_HEADERS_IN_BATCH == 32

MAX_RETRY_NUMBER == 5

\* stands for 2^64 - 1, the value a wrapping u64 subtraction 0 - 1 yields;
\* it is only ever incremented or compared for equality
U64_MAX == -1

Min(a, b) == IF a < b THEN a ELSE b

Bump(n) == IF n < CountCap THEN n + 1 ELSE n

\* u64 addition and subtraction of one as a release build computes them
WrappingInc(x) == IF x = U64_MAX THEN 0 ELSE x + 1

WrappingDec(x) == IF x = 0 THEN U64_MAX ELSE x - 1

----------------------------------------------------------------------------
(* Inputs *)

ChainConfigs == {"Eth", "Ckb", "Cosmos", "Err"}

NewBlock(h) == [kind |-> "NewBlock", height |-> h]

OtherEvent(h) == [kind |-> "Other", height |-> h]

EventSeqs ==
    { <<>>,
      << OtherEvent(1) >>,
      << NewBlock(1) >>,
      << OtherEvent(1), NewBlock(2), NewBlock(3) >> }

EventBatches ==
    { [events |-> es, height |-> 1] : es \in EventSeqs }
    \cup { [events |-> << NewBlock(1) >>, height |-> h] : h \in 1..MaxHeight }
    \cup { [events |-> << NewBlock(40), NewBlock(41), NewBlock(42) >>,
            height |-> 100] }

\* results of send_messages_and_wait_commit
SendOk == [kind |-> "Ok", source |-> "None", height |-> 0]

ErrMissingLastBlockId(h) ==
    [kind |-> "LightClientVerification", source |-> "MissingLastBlockId",
     height |-> h]

ErrOtherVerification ==
    [kind |-> "LightClientVerification", source |-> "Other", height |-> 0]

ErrOther == [kind |-> "Other", source |-> "None", height |-> 0]

NoResult == [kind |-> "None", source |-> "None", height |-> 0]

\* calls on the chain handles
NoCall == [op |-> "none", offset |-> 0, limit |-> 0, len |-> 0]

BuildCall == [op |-> "build_client_state", offset |-> 0, limit |-> 0, len |-> 0]

QueryCall(offset, lim) ==
    [op |-> "query_clients", offset |-> offset, limit |-> lim, len |-> 0]

SendCall(len) ==
    [op |-> "send_messages_and_wait_commit", offset |-> 0, limit |-> 0,
     len |-> len]

\* request of a page: none, or its offset and limit
NoPage == [valid |-> FALSE, offset |-> 0, limit |-> 0]

Page(offset, lim) == [valid |-> TRUE, offset |-> offset, limit |-> lim]

\* tips the destination may report for a batch
Tips(batch) ==
    IF batch.height <= MaxHeight THEN 0..(MaxHeight + 1) ELSE {50, 70, 100}

DirectResults(batch) ==
    {SendOk, ErrOtherVerification, ErrOther}
    \cup { ErrMissingLastBlockId(h) : h \in Tips(batch) }

ChaseResults == {SendOk, ErrMissingLastBlockId(0), ErrOtherVerification, ErrOther}

----------------------------------------------------------------------------
(* handle_event_batch *)

FinishUnlessQueryFailed(o) ==
    IF o = "query_failed"
    THEN pc' = "query" /\ outcome' = "none"
    ELSE pc' = "done" /\ outcome' = o

Finish(o) == pc' = "done" /\ outcome' = o

\* lines 24-36: the role check and the empty check
PreconditionOutcomeNoEmptyCheck(src, dst, events) ==
    IF src = "Err" THEN "panicked"
    ELSE IF src # "Eth" THEN "role_mismatch"
    ELSE IF dst = "Err" THEN "panicked"
    ELSE IF dst # "Ckb" THEN "role_mismatch"
    ELSE "proceed"

PreconditionOutcome(src, dst, events) ==
    IF src = "Err" THEN "panicked"
    ELSE IF src # "Eth" THEN "role_mismatch"
    ELSE IF dst = "Err" THEN "panicked"
    ELSE IF dst # "Ckb" THEN "role_mismatch"
    ELSE IF events = <<>> THEN "empty"
    ELSE "proceed"

\* where the filter_map iteration goes after event i
AfterEvent(i) ==
    IF i >= Len(event_batch.events) THEN "direct" ELSE "build"

Preconditions ==
    /\ pc = "start"
    /\ LET o == PreconditionOutcome(src_cfg, dst_cfg, event_batch.events)
       IN  IF o = "proceed"
           THEN /\ pc' = AfterEvent(0)
                /\ outcome' = outcome
                /\ target_height' = event_batch.height
           ELSE /\ Finish(o)
                /\ target_height' = target_height
    /\ UNCHANGED << src_cfg, dst_cfg, event_batch, idx, start_slot,
                    any_client_states, start_height, retry_number, limit,
                    clients_len, end_height, direct_result, chase_result,
                    n_build, n_direct, n_query, n_chase, call, slept,
                    page_pending, all_ok, all_gap, all_full, fail_run,
                    failed_page, build_log, direct_msgs, codec_vars >>

\* lines 55-63: what the closure adds to the collected client states
CollectAbortOnError(states, height, built) ==
    IF built THEN Append(states, height) ELSE << >>

Collect(states, height, built) ==
    IF built THEN Append(states, height) ELSE states

\* lines 45-66: the closure of filter_map applied to one event
FilterMapEvent ==
    /\ pc = "build"
    /\ LET event == event_batch.events[idx]
       IN  IF event.kind = "NewBlock"
           THEN /\ start_slot' = IF start_slot = 0 THEN event.height
                                 ELSE start_slot
                /\ n_build' = n_build + 1
                /\ call' = BuildCall
                /\ \E built \in BOOLEAN :
                      /\ any_client_states' =
                            Collect(any_client_states, event.height, built)
                      /\ build_log' =
                            Append(build_log,
                                   [height |-> event.height, ok |-> built])
           ELSE /\ call' = NoCall
                /\ UNCHANGED << start_slot, n_build, any_client_states,
                                build_log >>
    /\ idx' = idx + 1
    /\ pc' = AfterEvent(idx)
    /\ UNCHANGED << src_cfg, dst_cfg, event_batch, outcome, start_height,
                    target_height, retry_number, limit, clients_len,
                    end_height, direct_result, chase_result, n_direct,
                    n_query, n_chase, slept, page_pending, all_ok, all_gap,
                    all_full, fail_run, failed_page, direct_msgs,
                    codec_vars >>

\* lines 83-101: the only failure that starts a chase, and where it starts
DiagnoseAnyVerification(error) ==
    IF error.kind = "LightClientVerification"
    THEN [chase |-> TRUE, start |-> error.height]
    ELSE [chase |-> FALSE, start |-> 0]

Diagnose(error) ==
    IF error.kind = "LightClientVerification"
       /\ error.source = "MissingLastBlockId"
    THEN [chase |-> TRUE, start |-> error.height]
    ELSE [chase |-> FALSE, start |-> 0]

\* lines 76-106: what follows the Phase 1 submission
DirectOutcomeNoReturn(result, target) ==
    LET d == Diagnose(result)
    IN  IF result.kind # "Ok" /\ ~d.chase
        THEN [pc |-> "done", outcome |-> "unexpected", start |-> 0]
        ELSE IF d.start < target
             THEN [pc |-> "query", outcome |-> "none", start |-> d.start]
             ELSE [pc |-> "done", outcome |-> "chase_done", start |-> d.start]

DirectOutcome(result, target) ==
    IF result.kind = "Ok"
    THEN [pc |-> "done", outcome |-> "direct_ok", start |-> 0]
    ELSE LET d == Diagnose(result)
         IN  IF ~d.chase
             THEN [pc |-> "done", outcome |-> "unexpected", start |-> 0]
             ELSE IF d.start < target
                  THEN [pc |-> "query", outcome |-> "none", start |-> d.start]
                  ELSE [pc |-> "done", outcome |-> "chase_done",
                        start |-> d.start]

\* lines 69-106: the Phase 1 submission and the diagnosis of its failure
DirectSubmit ==
    /\ pc = "direct"
    /\ \E result \in DirectResults(event_batch) :
          LET o == DirectOutcome(result, target_height)
          IN  /\ direct_result' = result
              /\ pc' = o.pc
              /\ outcome' = o.outcome
              /\ start_height' = o.start
    /\ n_direct' = n_direct + 1
    /\ call' = SendCall(Len(any_client_states))
    /\ direct_msgs' = any_client_states
    /\ slept' = FALSE
    /\ retry_number' = 0
    /\ UNCHANGED << src_cfg, dst_cfg, event_batch, idx, start_slot,
                    any_client_states, target_height, limit, clients_len,
                    end_height, chase_result, n_build, n_query, n_chase,
                    page_pending, all_ok, all_gap, all_full, fail_run,
                    failed_page, build_log, codec_vars >>

\* line 118: the page size
PageLimit(start, target) ==
    Min(MAX_HEADERS_IN_BATCH, target - start + 1)

\* numbers of records a page of at most lim records may hold: all of them
\* on small pages, the ends of the range on large ones
RecordCounts(lim) ==
    IF lim <= MaxHeight + 2 THEN 0..lim ELSE {0, 1, lim - 1, lim}

\* what query_clients may return for a page of at most lim records
QueryResults(lim) ==
    {[ok |-> FALSE, len |-> 0]}
    \cup {[ok |-> TRUE, len |-> n] : n \in RecordCounts(lim)}

\* line 137: start_height + clients_len - 1 in u64.  With start_height = 0
\* and no record the subtraction overflows: a build with overflow checks
\* panics, a build without them wraps.
EndHeightOutcomes(start, len) ==
    IF start + len >= 1
    THEN {[panic |-> FALSE, value |-> start + len - 1]}
    ELSE {[panic |-> TRUE, value |-> 0],
          [panic |-> FALSE, value |-> WrappingDec(start + len)]}

\* lines 118-147: one page request and the bookkeeping before it is sent on
QueryClients ==
    /\ pc = "query"
    /\ LET lim == PageLimit(start_height, target_height)
       IN  /\ limit' = lim
           /\ call' = QueryCall(start_height, lim)
           /\ \E r \in QueryResults(lim) :
                 IF ~r.ok
                 THEN /\ Finish("query_failed")
                      /\ UNCHANGED << clients_len, end_height, page_pending,
                                      all_full >>
                 ELSE /\ clients_len' = r.len
                      /\ page_pending' = TRUE
                      /\ all_full' = (all_full /\ r.len = lim)
                      /\ \E e \in EndHeightOutcomes(start_height, r.len) :
                            IF e.panic
                            THEN Finish("panicked") /\ end_height' = end_height
                            ELSE /\ end_height' = e.value
                                 /\ pc' = "submit"
                                 /\ outcome' = outcome
    /\ n_query' = Bump(n_query)
    /\ slept' = FALSE
    /\ UNCHANGED << src_cfg, dst_cfg, event_batch, idx, start_slot,
                    any_client_states, start_height, target_height,
                    retry_number, direct_result, chase_result, n_build,
                    n_direct, n_chase, all_ok, all_gap, fail_run,
                    failed_page, build_log, direct_msgs, codec_vars >>

\* lines 181-187: send_messages wraps every record it is given
TrackedLen(len) == len

\* lines 160-164: the failure shape that is followed by the backoff sleep
SleepsAfterAnyFailure(error) == error.kind # "Ok"

SleepsAfter(error) ==
    error.kind = "LightClientVerification"
    /\ error.source = "MissingLastBlockId"

\* lines 148-166: the effect of the submission's result on the loop state
ChaseStepNoReset(result, start, endh, retry) ==
    IF result.kind = "Ok"
    THEN [start |-> WrappingInc(endh), retry |-> retry, sleep |-> FALSE]
    ELSE [start |-> start, retry |-> retry + 1, sleep |-> SleepsAfter(result)]

ChaseStepSkipFailedPage(result, start, endh, retry) ==
    IF result.kind = "Ok"
    THEN [start |-> WrappingInc(endh), retry |-> 0, sleep |-> FALSE]
    ELSE [start |-> WrappingInc(endh), retry |-> retry + 1,
          sleep |-> SleepsAfter(result)]

ChaseStep(result, start, endh, retry) ==
    IF result.kind = "Ok"
    THEN [start |-> WrappingInc(endh), retry |-> 0, sleep |-> FALSE]
    ELSE [start |-> start, retry |-> retry + 1, sleep |-> SleepsAfter(result)]

\* line 167
RetryExhaustedStrict(retry) == retry > MAX_RETRY_NUMBER

RetryExhausted(retry) == retry >= MAX_RETRY_NUMBER

\* lines 106, 167-174: the end of an iteration and the loop condition
LoopExit(start, target, retry) ==
    IF RetryExhausted(retry) THEN "retry_exhausted"
    ELSE IF start < target THEN "none"
    ELSE "chase_done"

\* lines 148-174: the submission of the page in flight
ChaseSubmit ==
    /\ pc = "submit"
    /\ \E result \in ChaseResults :
          LET s == ChaseStep(result, start_height, end_height, retry_number)
              o == LoopExit(s.start, target_height, s.retry)
          IN  /\ chase_result' = result
              /\ start_height' = s.start
              /\ retry_number' = s.retry
              /\ slept' = s.sleep
              /\ all_ok' = (all_ok /\ result.kind = "Ok")
              /\ all_gap' = (all_gap /\ result.source = "MissingLastBlockId")
              /\ fail_run' = IF result.kind = "Ok" THEN 0 ELSE fail_run + 1
              /\ failed_page' = IF result.kind = "Ok" THEN NoPage
                                ELSE Page(call.offset, call.limit)
              /\ outcome' = o
              /\ pc' = IF o = "none" THEN "query" ELSE "done"
    /\ n_chase' = Bump(n_chase)
    /\ call' = SendCall(TrackedLen(clients_len))
    /\ page_pending' = FALSE
    \* limit, client_states and end_height go out of scope with the iteration
    /\ limit' = 0
    /\ clients_len' = 0
    /\ end_height' = 0
    /\ UNCHANGED << src_cfg, dst_cfg, event_batch, idx, start_slot,
                    any_client_states, target_height, direct_result, n_build,
                    n_direct, n_query, all_full, build_log, direct_msgs,
                    codec_vars >>

----------------------------------------------------------------------------
(* ClientType *)

\* lines 22-31, in declaration order
ClientTypes == << "Tendermint", "Eth", "Ckb", "Axon", "Ckb4Ibc", "Mock" >>

ClientTypeSet == { ClientTypes[i] : i \in 1..Len(ClientTypes) }

\* lines 22-31: the discriminant, v as u64
Discriminant(v) ==
    CASE v = "Tendermint" -> 1
      [] v = "Eth" -> 2
      [] v = "Ckb" -> 3
      [] v = "Axon" -> 4
      [] v = "Ckb4Ibc" -> 5
      [] v = "Mock" -> 255

UnknownClientType(raw) == [ok |-> FALSE, value |-> "UnknownClientType", raw |-> raw]

OkType(v) == [ok |-> TRUE, value |-> v, raw |-> 0]

\* lines 58-73
TryFromU64(value) ==
    CASE value = 1 -> OkType("Tendermint")
      [] value = 2 -> OkType("Eth")
      [] value = 3 -> OkType("Ckb")
      [] value = 4 -> OkType("Axon")
      [] value = 5 -> OkType("Ckb4Ibc")
      [] value = 9999 -> OkType("Mock")
      [] OTHER -> UnknownClientType(value)

NumInputs == (0..MaxNum) \cup {255, 256, 9999, 10000}

NoCodecResult == [ok |-> FALSE, value |-> "none", raw |-> 0]

\* ClientType::try_from(n)
ApplyTryFrom ==
    /\ ct_op = "none"
    /\ ct_op' = "try_from"
    /\ ct_result' = TryFromU64(ct_num)
    /\ UNCHANGED << ct_variant, ct_num, ct_str, relay_vars >>

\* ClientType::try_from(v as u64)
ApplyTryFromDiscriminant ==
    /\ ct_op = "none"
    /\ ct_op' = "try_from_discriminant"
    /\ ct_num' = Discriminant(ct_variant)
    /\ ct_result' = TryFromU64(Discriminant(ct_variant))
    /\ UNCHANGED << ct_variant, ct_str, relay_vars >>

\* lines 34-41: the tags, as sequences of characters
TENDERMINT_STR == << "0", "7", "-", "t", "e", "n", "d", "e", "r", "m", "i", "n", "t" >>

ETH_STR == << "0", "7", "-", "e", "t", "h", "e", "r", "e", "u", "m" >>

CKB_STR_Short == << "0", "7", "-", "c", "k", "b", "4" >>

CKB_STR == << "0", "7", "-", "c", "k", "b", "4", "e", "t", "h" >>

CKB4IBC_STR == << "0", "7", "-", "c", "k", "b", "4", "i", "b", "c" >>

AXON_STR == << "0", "7", "-", "a", "x", "o", "n" >>

MOCK_STR == << "9", "9", "9", "9", "-", "m", "o", "c", "k" >>

\* lines 44-55
AsStrSwapped(v) ==
    CASE v = "Tendermint" -> TENDERMINT_STR
      [] v = "Eth" -> ETH_STR
      [] v = "Ckb" -> CKB_STR
      [] v = "Axon" -> CKB4IBC_STR
      [] v = "Ckb4Ibc" -> AXON_STR
      [] v = "Mock" -> MOCK_STR

AsStr(v) ==
    CASE v = "Tendermint" -> TENDERMINT_STR
      [] v = "Eth" -> ETH_STR
      [] v = "Ckb" -> CKB_STR
      [] v = "Axon" -> AXON_STR
      [] v = "Ckb4Ibc" -> CKB4IBC_STR
      [] v = "Mock" -> MOCK_STR

\* str::starts_with
StartsWithExactly(s, prefix) == s = prefix

StartsWith(s, prefix) ==
    /\ Len(prefix) <= Len(s)
    /\ SubSeq(s, 1, Len(prefix)) = prefix

\* lines 78-82: the loop over ClientType::iter() from variant i on
RECURSIVE InferFrom(_, _, _)
InferFrom(id, i, client_type) ==
    IF i > Len(ClientTypes) THEN client_type
    ELSE InferFrom(id, i + 1,
                   IF StartsWith(id, AsStr(ClientTypes[i]))
                   THEN ClientTypes[i] ELSE client_type)

\* lines 75-85
FromClientId(client_id) == InferFrom(client_id, 1, "Mock")

\* lines 93-110
FromStrByPrefix(s) ==
    CASE StartsWith(s, TENDERMINT_STR) -> OkType("Tendermint")
      [] StartsWith(s, ETH_STR) -> OkType("Eth")
      [] StartsWith(s, CKB_STR) -> OkType("Ckb")
      [] StartsWith(s, AXON_STR) -> OkType("Axon")
      [] StartsWith(s, CKB4IBC_STR) -> OkType("Ckb4Ibc")
      [] StartsWith(s, MOCK_STR) -> OkType("Mock")
      [] OTHER -> UnknownClientType(s)

FromStr(s) ==
    CASE s = TENDERMINT_STR -> OkType("Tendermint")
      [] s = ETH_STR -> OkType("Eth")
      [] s = CKB_STR -> OkType("Ckb")
      [] s = AXON_STR -> OkType("Axon")
      [] s = CKB4IBC_STR -> OkType("Ckb4Ibc")
      [] s = MOCK_STR -> OkType("Mock")
      [] OTHER -> UnknownClientType(s)

Tags == { AsStr(v) : v \in ClientTypeSet }

TagPrefixes == UNION { { SubSeq(t, 1, n) : n \in 0..Len(t) } : t \in Tags }

SuffixChars == {"-", "0", "i"}

Suffixes ==
    UNION { [1..n -> SuffixChars] : n \in 0..MaxSuffixLen }

\* the test string of line 142
RandomClientType == << "s", "o", "m", "e", "-", "r", "a", "n", "d", "o", "m", "-", "c", "l", "i", "e", "n", "t", "-", "t", "y", "p", "e" >>

StrInputs ==
    { p \o x : p \in TagPrefixes, x \in Suffixes } \cup {RandomClientType}

\* ClientType::from_str(s)
ApplyFromStr ==
    /\ ct_op = "none"
    /\ ct_op' = "from_str"
    /\ ct_result' = FromStr(ct_str)
    /\ UNCHANGED << ct_variant, ct_num, ct_str, relay_vars >>

\* ClientType::from_str(v.as_str())
ApplyFromStrAsStr ==
    /\ ct_op = "none"
    /\ ct_op' = "from_str_as_str"
    /\ ct_str' = AsStr(ct_variant)
    /\ ct_result' = FromStr(AsStr(ct_variant))
    /\ UNCHANGED << ct_variant, ct_num, relay_vars >>

\* ClientType::from(client_id)
ApplyFromClientId ==
    /\ ct_op = "none"
    /\ ct_op' = "from_client_id"
    /\ ct_result' = OkType(FromClientId(ct_str))
    /\ UNCHANGED << ct_variant, ct_num, ct_str, relay_vars >>

----------------------------------------------------------------------------
(* Specifications *)

RelayIdle ==
    /\ idx = 1
    /\ start_slot = 0
    /\ any_client_states = <<>>
    /\ start_height = 0
    /\ target_height = 0
    /\ retry_number = 0
    /\ limit = 0
    /\ clients_len = 0
    /\ end_height = 0
    /\ direct_result = NoResult
    /\ chase_result = NoResult
    /\ n_build = 0
    /\ n_direct = 0
    /\ n_query = 0
    /\ n_chase = 0
    /\ call = NoCall
    /\ slept = FALSE
    /\ page_pending = FALSE
    /\ all_ok = TRUE
    /\ all_gap = TRUE
    /\ all_full = TRUE
    /\ fail_run = 0
    /\ failed_page = NoPage
    /\ build_log = << >>
    /\ direct_msgs = << >>
    /\ outcome = "none"

CodecIdle ==
    /\ ct_op = "none"
    /\ ct_variant = "Mock"
    /\ ct_num = 0
    /\ ct_str = << >>
    /\ ct_result = NoCodecResult

\* one invocation of handle_event_batch on any batch and any pair of chains
Init ==
    /\ src_cfg \in ChainConfigs
    /\ dst_cfg \in ChainConfigs
    /\ event_batch \in EventBatches
    /\ pc = "start"
    /\ RelayIdle
    /\ CodecIdle

Next ==
    \/ Preconditions
    \/ FilterMapEvent
    \/ DirectSubmit
    \/ QueryClients
    \/ ChaseSubmit

Spec == Init /\ [][Next]_vars

\* the worker thread running the invocation is never suspended for ever
FairSpec == Spec /\ WF_vars(Next)

\* the codec's functions applied to any variant and any number
CodecInit ==
    /\ src_cfg = "Eth"
    /\ dst_cfg = "Ckb"
    /\ event_batch = [events |-> <<>>, height |-> 1]
    /\ pc = "idle"
    /\ RelayIdle
    /\ ct_op = "none"
    /\ ct_variant \in ClientTypeSet
    /\ \/ ct_num \in NumInputs /\ ct_str = << >>
       \/ ct_num = 0 /\ ct_str \in StrInputs
    /\ ct_result = NoCodecResult

CodecNext ==
    \/ ApplyTryFrom
    \/ ApplyTryFromDiscriminant
    \/ ApplyFromStr
    \/ ApplyFromStrAsStr
    \/ ApplyFromClientId

CodecSpec == CodecInit /\ [][CodecNext]_vars

----------------------------------------------------------------------------
(* Properties of the chase loop *)

GapReported ==
    /\ direct_result.kind = "LightClientVerification"
    /\ direct_result.source = "MissingLastBlockId"

\* the tip H the destination reported
ReportedTip == direct_result.height

\* C1: in the chase loop, for every reported tip below target_height and
\* every number of records per page, if every query and every chase
\* submission succeeds then start_height strictly increases on every
\* iteration and the loop exits with start_height = target_height.
C1_AdvancesToTarget ==
    /\ [][(pc = "submit" /\ all_ok') => start_height' > start_height]_vars
    /\ []((GapReported /\ ReportedTip < target_height /\ all_ok
             /\ pc = "done" /\ outcome = "chase_done")
           => start_height = target_height)

\* C2: every invocation of handle_event_batch, whatever the chain handles
\* return, eventually reaches a terminal state; it never loops for ever.
C2_Terminates == <>(pc = "done")

ScenarioBatch ==
    [events |-> << NewBlock(40), NewBlock(41), NewBlock(42) >>, height |-> 100]

\* batch height 100, tip 50 reported, full pages, every chase step succeeds
Scenario ==
    /\ event_batch = ScenarioBatch
    /\ direct_result = ErrMissingLastBlockId(50)
    /\ all_full
    /\ all_ok
    /\ outcome # "query_failed"

\* C3: in the scenario the queries are exactly (offset 50, limit 32) and
\* (offset 82, limit 18), each followed by one submission, start_height goes
\* 50 -> 82 -> 100, the loop ends in success and retry_number stays 0.
C3_ScenarioQueries ==
    Scenario =>
        /\ retry_number = 0
        /\ start_height \in {50, 82, 100}
        /\ n_chase = IF page_pending THEN n_query - 1 ELSE n_query
        /\ call.op = "query_clients" =>
              \/ n_query = 1 /\ call.offset = 50 /\ call.limit = 32
              \/ n_query = 2 /\ call.offset = 82 /\ call.limit = 18
        /\ pc = "done" =>
              /\ outcome = "chase_done"
              /\ start_height = 100
              /\ n_query = 2

\* C4: after a direct submission failing with MissingLastBlockId and a tip
\* H < end_slot, the first query has offset H, every query has offset
\* start_height and limit min(32, target_height - start_height + 1), within
\* 1..32, and every successful query is followed by exactly one submission
\* before the next query or the end of the invocation.
C4_PagedQueries ==
    (GapReported /\ ReportedTip < target_height) =>
        /\ call.op = "query_clients" =>
              /\ call.offset = start_height
              /\ n_query = 1 => call.offset = ReportedTip
              /\ call.limit = IF target_height - start_height + 1 < 32
                              THEN target_height - start_height + 1 ELSE 32
              /\ call.limit \in 1..32
        /\ page_pending => pc = "submit"
        /\ (pc # "submit" /\ n_query < CountCap) => n_chase = n_query
                                                    \/ outcome = "query_failed"

\* C5: if the first five chase submissions all fail with the gap shape, the
\* relay stops right after the fifth, having made exactly five queries and
\* five chase submissions, all at offset H, and it slept after every failed
\* submission, hence before every retry.
C5_FiveGapFailuresAbort ==
    (all_gap /\ n_chase >= 1) =>
        /\ start_height = ReportedTip
        /\ call.op = "query_clients" => call.offset = ReportedTip
        /\ call.op = "send_messages_and_wait_commit" => slept
        /\ n_chase < 5 => pc # "done" \/ outcome = "query_failed"
                                      \/ outcome = "panicked"
        /\ n_chase >= 5 =>
              /\ pc = "done"
              /\ outcome = "retry_exhausted"
              /\ n_query = 5
              /\ n_chase = 5

C5_Witness ==
    /\ all_gap
    /\ n_chase = 5
    /\ n_query = 5
    /\ slept
    /\ outcome = "retry_exhausted"

\* C6: a batch whose direct submission succeeds causes exactly one
\* submission, no query, and the relay returns.
C6_DirectSuccessOnly ==
    direct_result.kind = "Ok" =>
        /\ pc = "done"
        /\ outcome = "direct_ok"
        /\ n_direct = 1
        /\ n_chase = 0
        /\ n_query = 0

C6_Witness ==
    /\ direct_result.kind = "Ok"
    /\ pc = "done"
    /\ call.op = "send_messages_and_wait_commit"

\* a precondition of lines 24-36 fails, the configurations being readable
PreconditionFails ==
    \/ src_cfg \notin {"Eth", "Err"}
    \/ src_cfg = "Eth" /\ dst_cfg \notin {"Ckb", "Err"}
    \/ src_cfg = "Eth" /\ dst_cfg = "Ckb" /\ event_batch.events = <<>>

\* C7: if the source is not Eth, the destination is not Ckb or the batch is
\* empty, the relay returns without any build_client_state, query_clients or
\* submission; an empty batch is a normal return.
C7_PreconditionsFailFast ==
    (PreconditionFails /\ pc # "start") =>
        /\ pc = "done"
        /\ outcome = IF src_cfg = "Eth" /\ dst_cfg = "Ckb" THEN "empty"
                     ELSE "role_mismatch"
        /\ n_build = 0
        /\ n_query = 0
        /\ n_direct = 0
        /\ n_chase = 0
        /\ call = NoCall

C7_Witness ==
    /\ pc = "done"
    /\ outcome = "empty"
    /\ event_batch.events = <<>>
    /\ n_direct = 0

\* C8: a direct submission failing with anything but a light client
\* verification failure caused by MissingLastBlockId ends the relay at once:
\* no query, no further submission, no chase.
C8_UnexpectedFailureEnds ==
    (direct_result.kind \notin {"None", "Ok"} /\ ~GapReported) =>
        /\ pc = "done"
        /\ outcome = "unexpected"
        /\ n_direct = 1
        /\ n_query = 0
        /\ n_chase = 0

C8_Witness ==
    /\ direct_result = ErrOtherVerification
    /\ pc = "done"
    /\ outcome = "unexpected"

\* C9: a page with fewer records than the limit, none included, is still
\* submitted: exactly one submission of exactly the records received.
C9_ShortPageSubmitted ==
    /\ []((page_pending /\ clients_len < limit) => pc = "submit")
    /\ [][(pc = "submit" /\ clients_len < limit)
            => /\ call' = SendCall(clients_len)
               /\ n_chase' = Bump(n_chase)
               /\ ~page_pending']_vars

----------------------------------------------------------------------------
(* Properties of ClientType *)

\* C10: try_from(v as u64) = Ok(v) for every variant v, Mock included;
\* variant <-> number is a bijection and every other number fails with
\* UnknownClientType.
C10_NumericRoundTrip ==
    /\ ct_op = "try_from_discriminant" => ct_result = OkType(ct_variant)
    /\ ct_op = "try_from" =>
          IF \E v \in ClientTypeSet : Discriminant(v) = ct_num
          THEN ct_result.ok /\ Discriminant(ct_result.value) = ct_num
          ELSE ct_result = UnknownClientType(ct_num)

\* p is a prefix of s
IsPrefix(p, s) == \E n \in 0..Len(s) : SubSeq(s, 1, n) = p

\* C11: from_str(v.as_str()) = Ok(v) for every variant v, and the tags of
\* distinct variants are distinct.
C11_ParseInvertsTag ==
    /\ ct_op = "from_str_as_str" =>
          /\ ct_result.ok
          /\ ct_result.value = ct_variant
    /\ \A v, w \in ClientTypeSet : v # w => AsStr(v) # AsStr(w)

C11_Witness ==
    /\ ct_op = "from_str_as_str"
    /\ ct_variant = "Axon"
    /\ ct_str = AXON_STR
    /\ ct_result.ok

\* C12: from_str(s) fails with UnknownClientType carrying exactly s for every
\* s that is not a canonical tag, among them a tag followed by a suffix and
\* the empty string; there is no prefix matching.
C12_ParseIsExact ==
    (ct_op = "from_str" /\ ct_str \notin Tags) =>
        /\ ~ct_result.ok
        /\ ct_result.value = "UnknownClientType"
        /\ ct_result.raw = ct_str

C12_Witness ==
    /\ ct_op = "from_str"
    /\ ct_str = CKB_STR \o << "-", "0" >>
    /\ ~ct_result.ok

\* positions, in declaration order, of the variants whose tag prefixes id
Matches(id) ==
    { i \in 1..Len(ClientTypes) : IsPrefix(AsStr(ClientTypes[i]), id) }

\* C13: inference from a client identifier never fails: it returns the last
\* variant in declaration order whose tag is a prefix of the identifier, and
\* Mock when no tag is a prefix, the empty identifier included.
C13_InferenceLastMatch ==
    ct_op = "from_client_id" =>
        /\ ct_result.ok
        /\ IF Matches(ct_str) = {}
           THEN ct_result.value = "Mock"
           ELSE \E i \in Matches(ct_str) :
                   /\ \A j \in Matches(ct_str) : j <= i
                   /\ ct_result.value = ClientTypes[i]

C13_Witness ==
    /\ ct_op = "from_client_id"
    /\ ct_str = AXON_STR \o << "-", "0" >>
    /\ ct_result.value = "Axon"

\* C20: no tag is a prefix of another variant's tag, so at most one variant
\* matches an identifier, the last match is the first match, and inference
\* of a tag followed by any suffix returns the tag's variant.
C20_TagsPrefixFree ==
    /\ \A v, w \in ClientTypeSet : v # w => ~IsPrefix(AsStr(v), AsStr(w))
    /\ ct_op = "from_client_id" =>
          /\ Cardinality(Matches(ct_str)) <= 1
          /\ \A i \in Matches(ct_str) :
                (\A j \in Matches(ct_str) : i <= j)
                    => ct_result.value = ClientTypes[i]
          /\ \A v \in ClientTypeSet :
                IsPrefix(AsStr(v), ct_str) => ct_result.value = v

C20_Witness ==
    /\ ct_op = "from_client_id"
    /\ ct_str = CKB4IBC_STR \o << "-", "0" >>
    /\ ct_result.value = "Ckb4Ibc"
    /\ Cardinality(Matches(ct_str)) = 1

----------------------------------------------------------------------------
(* Properties of the retry budget, the backoff and Phase 1 *)

ChaseSubmitted == call.op = "send_messages_and_wait_commit" /\ n_chase >= 1

\* C14: the relay stops for retry exhaustion exactly when five chase
\* submissions in a row have failed; a successful one resets retry_number to
\* 0, so retry_number stays in 0..5, is below 5 at every query, and failures
\* separated by a success do not add up.
C14_RetryBudget ==
    /\ retry_number \in 0..5
    /\ retry_number = fail_run
    /\ outcome = "retry_exhausted" <=> fail_run >= 5
    /\ call.op = "query_clients" => retry_number < 5
    /\ (ChaseSubmitted /\ chase_result.kind = "Ok") => retry_number = 0

\* exhaustion after an earlier success: more than five chase submissions
C14_Witness ==
    /\ outcome = "retry_exhausted"
    /\ fail_run = 5
    /\ n_chase >= 6
    /\ ~all_gap

\* C15: a failed chase submission, whatever its shape, leaves start_height
\* and target_height unchanged and adds exactly 1 to retry_number; if the
\* budget is not exhausted the next query has the offset and the limit of
\* the failed page.
C15_FailureKeepsPage ==
    /\ [][(pc = "submit" /\ chase_result'.kind # "Ok")
            => /\ start_height' = start_height
               /\ target_height' = target_height
               /\ retry_number' = retry_number + 1]_vars
    /\ [][(pc = "query" /\ failed_page.valid)
            => /\ call'.op = "query_clients"
               /\ call'.offset = failed_page.offset
               /\ call'.limit = failed_page.limit]_vars

\* the query that retries a page whose submission failed
C15_Witness ==
    /\ call.op = "query_clients"
    /\ failed_page.valid
    /\ call.offset = failed_page.offset
    /\ call.limit = failed_page.limit
    /\ chase_result = ErrOther
    /\ retry_number = 2

\* the latest step was a query_clients call that returned no page
QueryFailed == call.op = "query_clients" /\ ~page_pending

\* C16: a failed query_clients ends the relay at once: the page is not
\* submitted, no query or submission follows, retry_number is neither
\* consulted nor incremented, and there is no sleep.
C16_QueryFailureAborts ==
    /\ [](QueryFailed => (pc = "done" /\ outcome = "query_failed" /\ ~slept))
    /\ [][(pc = "query" /\ QueryFailed')
            => /\ retry_number' = retry_number
               /\ n_chase' = n_chase
               /\ start_height' = start_height]_vars
    /\ [][pc = "done" => UNCHANGED << n_query, n_chase, n_direct, call >>]_vars

\* a query failing on the retry of a page, with budget left
C16_Witness ==
    /\ QueryFailed
    /\ outcome = "query_failed"
    /\ retry_number = 1
    /\ n_query = 2
    /\ n_chase = 1

GapShape(result) ==
    /\ result.kind = "LightClientVerification"
    /\ result.source = "MissingLastBlockId"

\* C17: the backoff sleep happens only in the chase loop, directly after a
\* chase submission that failed with the MissingLastBlockId shape; a chase
\* submission failing with another shape does not sleep but still adds to
\* retry_number; no sleep follows a successful submission, a Phase 1 failure
\* or a query failure.
C17_SleepOnlyAfterGap ==
    /\ [](slept => (ChaseSubmitted /\ GapShape(chase_result)))
    /\ [][pc = "submit"
            => /\ ~GapShape(chase_result') => ~slept'
               /\ chase_result'.kind # "Ok"
                     => retry_number' = retry_number + 1]_vars
    /\ [][pc # "submit" => ~slept']_vars

\* a chase submission rejected by the light client for another cause
C17_Witness ==
    /\ ChaseSubmitted
    /\ chase_result = ErrOtherVerification
    /\ ~slept
    /\ retry_number = 1

IsNewBlock(event) == event.kind = "NewBlock"

BuiltOk(entry) == entry.ok

HeightsOf(seq) == [i \in 1..Len(seq) |-> seq[i].height]

\* C18: for a non-empty batch and valid roles Phase 1 makes exactly one
\* submission, whose msgs are the client states of the NewBlock events whose
\* build succeeded, in event order; a failed build drops only its own header
\* and other events contribute nothing.
C18_DirectMsgs ==
    /\ n_direct <= 1
    /\ (src_cfg = "Eth" /\ dst_cfg = "Ckb" /\ event_batch.events # << >>
          /\ pc \notin {"start", "build", "direct"})
        => /\ n_direct = 1
           /\ HeightsOf(build_log) =
                 HeightsOf(SelectSeq(event_batch.events, IsNewBlock))
           /\ n_build = Len(build_log)
           /\ direct_msgs = HeightsOf(SelectSeq(build_log, BuiltOk))

\* one build succeeds, the next fails, one event is not a NewBlock
C18_Witness ==
    /\ event_batch.events = << OtherEvent(1), NewBlock(2), NewBlock(3) >>
    /\ build_log = << [height |-> 2, ok |-> TRUE], [height |-> 3, ok |-> FALSE] >>
    /\ direct_msgs = << 2 >>
    /\ n_direct = 1

\* C19: the u64 arithmetic of the chase loop never underflows or overflows:
\* end_height = start_height + clients_len - 1 does not wrap and does not
\* panic in any reachable state, a reported tip of 0 with a page of zero
\* records included, and start_height never decreases.
C19_NoUnderflow ==
    /\ [](end_height # U64_MAX)
    /\ [](~(outcome = "panicked" /\ page_pending))
    /\ [][pc = "submit" => start_height' >= start_height]_vars

====
